---- MODULE Spec2Model ----
(***************************************************************************)
(* Model of resources/font-maker: create_font.py (the driver) and          *)
(* fontforge_import.py (the font-import helper).                           *)
(*                                                                         *)
(* Text is a sequence of tokens.  A character that comes from data (the    *)
(* input file, an icon name, a hex digit) is a one-character string; a     *)
(* literal segment of an f-string or of the Rust template is one token.    *)
(***************************************************************************)
EXTENDS Integers, Sequences, FiniteSets, TLC

\* ------------------------------------------------------------------ bounds
MaxIcons   == 2     \* lines of list.txt
MaxWorkers == 1     \* worker threads of the ThreadPoolExecutor
MaxRuns    == 2     \* runs of the driver over the same list.txt
MaxIndex   == 170   \* icon indices for the per-arm functions
MaxNameLen == 3     \* length of the enumerated icon names

\* ------------------------------------------------------- characters, str
Lowercase == <<"a","b","c","d","e","f","g","h","i","j","k","l","m",
               "n","o","p","q","r","s","t","u","v","w","x","y","z">>
Uppercase == <<"A","B","C","D","E","F","G","H","I","J","K","L","M",
               "N","O","P","Q","R","S","T","U","V","W","X","Y","Z">>
Whitespace == {" ", "\t", "\n", "\r"}

upper(c) ==
  IF \E k \in 1..26 : Lowercase[k] = c
  THEN Uppercase[CHOOSE k \in 1..26 : Lowercase[k] = c]
  ELSE c

lower(c) ==
  IF \E k \in 1..26 : Uppercase[k] = c
  THEN Lowercase[CHOOSE k \in 1..26 : Uppercase[k] = c]
  ELSE c

\* variant: only the first character changed (word[0].upper() + word[1:])
capitalize_keep(word) ==
  [k \in 1..Len(word) |-> IF k = 1 THEN upper(word[k]) ELSE word[k]]

\* str.capitalize(): first character upper-cased, all the others lower-cased
capitalize(word) ==
  [k \in 1..Len(word) |-> IF k = 1 THEN upper(word[k]) ELSE lower(word[k])]

\* str.split('-'): the maximal hyphen-free pieces, empty pieces kept
RECURSIVE split(_)
split(s) ==
  IF \A k \in 1..Len(s) : s[k] # "-"
  THEN <<s>>
  ELSE LET p == CHOOSE k \in 1..Len(s) :
                  s[k] = "-" /\ \A j \in 1..(k-1) : s[j] # "-"
       IN  <<SubSeq(s, 1, p-1)>> \o split(SubSeq(s, p+1, Len(s)))

\* "".join(seq)
RECURSIVE join(_)
join(ss) == IF ss = <<>> THEN <<>> ELSE Head(ss) \o join(Tail(ss))

\* str.strip(): surrounding whitespace removed
RECURSIVE lstrip(_)
lstrip(s) ==
  IF s # <<>> /\ Head(s) \in Whitespace THEN lstrip(Tail(s)) ELSE s

RECURSIVE rstrip(_)
rstrip(s) ==
  IF s # <<>> /\ s[Len(s)] \in Whitespace
  THEN rstrip(SubSeq(s, 1, Len(s)-1)) ELSE s

strip(s) == rstrip(lstrip(s))

\* variant: content.split("\n"), which returns one empty line for an empty file
RECURSIVE readlines_split(_)
readlines_split(content) ==
  IF \A k \in 1..Len(content) : content[k] # "\n"
  THEN <<content>>
  ELSE LET p == CHOOSE k \in 1..Len(content) :
                  content[k] = "\n" /\ \A j \in 1..(k-1) : content[j] # "\n"
       IN  <<SubSeq(content, 1, p - 1)>>
             \o readlines_split(SubSeq(content, p+1, Len(content)))

\* f.readlines(): the lines of the file, each with its terminator; a last
\* line without terminator is returned when it is not empty
RECURSIVE readlines(_)
readlines(content) ==
  IF content = <<>> THEN <<>>
  ELSE IF \A k \in 1..Len(content) : content[k] # "\n"
  THEN <<content>>
  ELSE LET p == CHOOSE k \in 1..Len(content) :
                  content[k] = "\n" /\ \A j \in 1..(k-1) : content[j] # "\n"
       IN  <<SubSeq(content, 1, p)>>
             \o readlines(SubSeq(content, p+1, Len(content)))

\* hex(n) for n >= 0: "0x" followed by the lower-case base-16 digits
HexDigit == <<"0","1","2","3","4","5","6","7","8","9","a","b","c","d","e","f">>

RECURSIVE hexdigits(_)
hexdigits(n) ==
  IF n < 16 THEN <<HexDigit[n + 1]>>
  ELSE hexdigits(n \div 16) \o <<HexDigit[(n % 16) + 1]>>

hex(n) == <<"0", "x">> \o hexdigits(n)

\* ---------------------------------------------------------- create_font.py
pascal_case(var) == join([k \in 1..Len(split(var)) |-> capitalize(split(var)[k])])

enum_arm(icon) ==
  <<"\t/// ">> \o icon \o <<"\n\t">> \o pascal_case(icon) \o <<",\n">>

BaseCodePoint == 97    \* 0x61

\* variant: the "0x" prefix of hex() not sliced off
match_arm_prefixed(icon, i) ==
  <<"\t\tIcon::">> \o pascal_case(icon) \o <<" => '\\u{">>
    \o hex(BaseCodePoint + i) \o <<"}',\n">>

match_arm(icon, i) ==
  LET unicode == SubSeq(hex(BaseCodePoint + i), 3, Len(hex(BaseCodePoint + i)))
  IN  <<"\t\tIcon::">> \o pascal_case(icon) \o <<" => '\\u{">> \o unicode
        \o <<"}',\n">>

svg_path == "/mnt/c/Users/andre/Downloads/bootstrap-icons-1.10.5/bootstrap-icons-1.10.5"

\* variant: the icon name not interpolated into the path
svg_file_fixed(icon) == <<svg_path, "/">> \o <<".svg">>

svg_file(icon) == <<svg_path, "/">> \o icon \o <<".svg">>

IsNotBlank(icon) == icon # <<>>

\* variant: blank names skipped in the enumeration
enum_arms_nonblank(icons) ==
  join([k \in 1..Len(SelectSeq(icons, IsNotBlank)) |->
          enum_arm(SelectSeq(icons, IsNotBlank)[k])])

enum_arms(icons) == join([k \in 1..Len(icons) |-> enum_arm(icons[k])])

\* enumerate(icons) counts from 0
match_arms(icons) == join([k \in 1..Len(icons) |-> match_arm(icons[k], k - 1)])

RustHead ==
  "//! Selected boostrap icons. Machine generated code. Do not change!\n\n/// Icons\n#[derive(Copy, Clone, Debug, Hash)]\npub enum Icon {\n"
RustMid ==
  "}\n\n/// Converts an icon into a char.\n#[must_use]\n#[allow(clippy::too_many_lines)]\npub const fn icon_to_char(icon: Icon) -> char {\n    match icon {\n"
RustTail ==
  "\t}\n}\n\nimpl std::fmt::Display for Icon {\n    fn fmt(&self, f: &mut std::fmt::Formatter<'_>) -> std::fmt::Result {\n        use std::fmt::Write;\n        f.write_char(icon_to_char(*self))\n    }\n}\n"

rust(icons) ==
  <<RustHead>> \o enum_arms(icons) \o <<RustMid>> \o match_arms(icons)
    \o <<RustTail>>

\* variant: the private-use base of the commented-out line
helper_uni_pua(i) == 61698 + i    \* 0xf102 + i

\* fontforge_import.py line 10: the code point of the icon at index i
helper_uni(i) == 97 + i    \* 0x61 + i

\* run_fontforge.sh: launches fontforge_import.py with the arguments it got
\* (command is ["bash", "run_fontforge.sh", icon, ...])
run_fontforge_sh(command) ==
  <<(<<"fontforge_import.py">>)>> \o SubSeq(command, 3, Len(command))

\* ------------------------------------------------------------------ inputs
None == 256         \* Popen.returncode of a process that has not exited
ExitCodes == {0, 1}

RawLines ==
  { <<"a", "-", "b">>, <<" ", "c", "-", "d", "\t">>, <<"a", "-", "b", " ">>,
    <<>> }

RECURSIVE SeqsUpTo(_, _)
SeqsUpTo(S, n) ==
  IF n = 0 THEN {<<>>}
  ELSE SeqsUpTo(S, n - 1)
         \cup {Append(s, x) : s \in {t \in SeqsUpTo(S, n - 1) : Len(t) = n - 1},
                              x \in S}

\* the lines joined by "\n", with or without a terminator after the last
RECURSIVE FileOf(_, _)
FileOf(lines, nl) ==
  IF lines = <<>> THEN <<>>
  ELSE IF Len(lines) = 1 THEN Head(lines) \o (IF nl THEN <<"\n">> ELSE <<>>)
  ELSE Head(lines) \o <<"\n">> \o FileOf(Tail(lines), nl)

ListFiles ==
  {[exists |-> TRUE, content |-> FileOf(ls, nl)] :
      ls \in SeqsUpTo(RawLines, MaxIcons), nl \in BOOLEAN}
    \cup {[exists |-> FALSE, content |-> <<>>]}

PriorContents == { <<>>, <<"// written by hand\n">> }

IconAlphabet == {"a", "B", "-", "1"}
ExampleNames ==
  { <<"a","r","r","o","w","-","l","e","f","t">>,
    <<"c","h","e","v","r","o","n","-","d","o","u","b","l","e","-","u","p">>,
    <<"a","-","b">>, <<"c","-","d">>, <<"a","B","-","a">> }
IconNames == SeqsUpTo(IconAlphabet, MaxNameLen) \cup ExampleNames

\* ------------------------------------------------------------------- state
VARIABLES
  list_txt,    \* the file list.txt: [exists, content]
  icon_rs,     \* the file ../../src/icon.rs
  ttf,         \* the file SpellsIcons.ttf: the glyphs of the generated font
  pc,          \* position of the driver script
  icons,       \* the driver's icon list
  procs,       \* stroke_to_path_processes: [args, returncode]
  futures,     \* state of the future submitted for each process
  wrapper,     \* the process started by subprocess.run: [state, command, returncode]
  helper,      \* fontforge_import.py: [state, argv, i, font]
  fault,       \* the exception that ended the driver, if any
  run,         \* number of the current run of the driver
  arg_icon, arg_i,         \* arguments of the per-arm functions
  called,                  \* which of them have been called
  ret_pascal, ret_match    \* what they returned

vars == <<list_txt, icon_rs, ttf, pc, icons, procs, futures, wrapper, helper,
          fault, run, arg_icon, arg_i, called, ret_pascal, ret_match>>

fnvars == <<arg_icon, arg_i, called, ret_pascal, ret_match>>
drvars == <<pc, icons, procs, futures, wrapper, helper, fault, run>>
fsvars == <<list_txt, icon_rs, ttf>>

NoWrapper == [state |-> "none", command |-> <<>>, returncode |-> None]
NoHelper  == [state |-> "none", argv |-> <<>>, i |-> 0, font |-> <<>>]

Init ==
  /\ list_txt \in ListFiles
  /\ icon_rs \in PriorContents
  /\ ttf = <<>>
  /\ pc = "open"
  /\ icons = <<>>
  /\ procs = <<>>
  /\ futures = <<>>
  /\ wrapper = NoWrapper
  /\ helper = NoHelper
  /\ fault = "none"
  /\ run = 1
  /\ arg_icon = <<>> /\ arg_i = 0 /\ called = {}
  /\ ret_pascal = <<>> /\ ret_match = <<>>

\* ------------------------------------------------------------- the driver
\* lines 19-20: open('list.txt') and read the icon list
OpenList ==
  /\ pc = "open"
  /\ IF list_txt.exists
     THEN /\ icons' = [k \in 1..Len(readlines(list_txt.content)) |->
                          strip(readlines(list_txt.content)[k])]
          /\ pc' = "spawn"
          /\ fault' = fault
     ELSE /\ pc' = "aborted"
          /\ fault' = "FileNotFoundError"
          /\ icons' = icons
  /\ UNCHANGED <<fsvars, procs, futures, wrapper, helper, run, fnvars>>

\* lines 24-31: one Popen per icon, in list order; Popen raises OSError when
\* the converter cannot be started
Spawn ==
  /\ pc = "spawn"
  /\ Len(procs) < Len(icons)
  /\ \/ /\ procs' = Append(procs,
                      [args |-> <<"/usr/local/bin/svg-stroke-to-path",
                                  "SameStrokeColor", "stroke=\"#000\"",
                                  svg_file(icons[Len(procs) + 1])>>,
                       returncode |-> None])
        /\ UNCHANGED <<pc, fault>>
     \/ /\ pc' = "aborted"
        /\ fault' = "OSError"
        /\ procs' = procs
  /\ UNCHANGED <<fsvars, icons, futures, wrapper, helper, run, fnvars>>

\* line 32: the executor is entered once the list of processes is built
EnterExecutor ==
  /\ pc = "spawn"
  /\ Len(procs) = Len(icons)
  /\ pc' = "submit"
  /\ UNCHANGED <<fsvars, icons, procs, futures, wrapper, helper, fault, run,
                 fnvars>>

\* line 33: executor.submit(process.wait), one future per process
Submit ==
  /\ pc = "submit"
  /\ Len(futures) < Len(procs)
  /\ futures' = Append(futures, "pending")
  /\ UNCHANGED <<fsvars, pc, icons, procs, wrapper, helper, fault, run, fnvars>>

\* a converter process exits, with any status
ProcExit(i) ==
  /\ i \in 1..Len(procs)
  /\ procs[i].returncode = None
  /\ \E rc \in ExitCodes :
       procs' = [procs EXCEPT ![i].returncode = rc]
  /\ UNCHANGED <<fsvars, pc, icons, futures, wrapper, helper, fault, run,
                 fnvars>>

\* a free worker thread takes the oldest queued work item and calls
\* process.wait
WorkerStart(i) ==
  /\ i \in 1..Len(futures)
  /\ futures[i] = "pending"
  /\ \A j \in 1..(i - 1) : futures[j] # "pending"
  /\ Cardinality({j \in 1..Len(futures) : futures[j] = "running"}) < MaxWorkers
  /\ futures' = [futures EXCEPT ![i] = "running"]
  /\ UNCHANGED <<fsvars, pc, icons, procs, wrapper, helper, fault, run, fnvars>>

\* variant: process.poll, which returns at once
WorkerDone_poll(i) ==
  /\ i \in 1..Len(futures)
  /\ futures[i] = "running"
  /\ futures' = [futures EXCEPT ![i] = "finished"]
  /\ UNCHANGED <<fsvars, pc, icons, procs, wrapper, helper, fault, run, fnvars>>

\* process.wait returns when the process has exited; the future is done
WorkerDone(i) ==
  /\ i \in 1..Len(futures)
  /\ futures[i] = "running"
  /\ procs[i].returncode # None
  /\ futures' = [futures EXCEPT ![i] = "finished"]
  /\ UNCHANGED <<fsvars, pc, icons, procs, wrapper, helper, fault, run, fnvars>>

\* variant: the results are read and a non-zero exit status raises
WaitAll_checked ==
  /\ pc = "submit"
  /\ Len(futures) = Len(procs)
  /\ \A j \in 1..Len(futures) : futures[j] = "finished"
  /\ IF \E j \in 1..Len(procs) : procs[j].returncode # 0
     THEN pc' = "aborted" /\ fault' = "CalledProcessError"
     ELSE pc' = "stepB" /\ fault' = fault
  /\ UNCHANGED <<fsvars, icons, procs, futures, wrapper, helper, run, fnvars>>

\* lines 34-35: concurrent.futures.wait(futures) and the exit of the
\* executor return when every future is done
WaitAll ==
  /\ pc = "submit"
  /\ Len(futures) = Len(procs)
  /\ \A j \in 1..Len(futures) : futures[j] = "finished"
  /\ pc' = "stepB"
  /\ UNCHANGED <<fsvars, icons, procs, futures, wrapper, helper, fault, run,
                 fnvars>>

\* lines 37-40: subprocess.run(["bash", "run_fontforge.sh"] + icons) starts
\* the wrapper; it raises OSError when bash cannot be started
RunWrapper ==
  /\ pc = "stepB"
  /\ \/ /\ wrapper' = [state |-> "running",
                       command |-> <<(<<"bash">>), (<<"run_fontforge.sh">>)>>
                                     \o icons,
                       returncode |-> None]
        /\ pc' = "stepB_wait"
        /\ fault' = fault
     \/ /\ pc' = "aborted"
        /\ fault' = "OSError"
        /\ wrapper' = wrapper
  /\ UNCHANGED <<fsvars, icons, procs, futures, helper, run, fnvars>>

\* the wrapper fails before it has started the helper
WrapperFail ==
  /\ wrapper.state = "running"
  /\ helper.state = "none"
  /\ wrapper' = [wrapper EXCEPT !.state = "exited", !.returncode = 1]
  /\ UNCHANGED <<fsvars, pc, icons, procs, futures, helper, fault, run, fnvars>>

\* fontforge_import.py lines 5-8: the helper starts with the wrapper's
\* arguments
HelperStart ==
  /\ wrapper.state = "running"
  /\ helper.state = "none"
  /\ helper' = [state |-> "running",
                argv |-> run_fontforge_sh(wrapper.command),
                i |-> 0, font |-> <<>>]
  /\ UNCHANGED <<fsvars, pc, icons, procs, futures, wrapper, fault, run, fnvars>>

\* fontforge_import.py lines 9-15: one iteration of the loop over
\* enumerate(sys.argv[1:])
HelperCreateChar ==
  /\ helper.state = "running"
  /\ helper.i < Len(Tail(helper.argv))
  /\ LET icon == Tail(helper.argv)[helper.i + 1]
         uni  == helper_uni(helper.i)
     IN  helper' = [helper EXCEPT
                      !.font = Append(@, [uni |-> uni, name |-> icon,
                                          outline |-> svg_file(icon)]),
                      !.i = @ + 1]
  /\ UNCHANGED <<fsvars, pc, icons, procs, futures, wrapper, fault, run, fnvars>>

\* a fontforge call raises: the helper ends with a traceback, and so does
\* the wrapper
HelperFail ==
  /\ helper.state = "running"
  /\ helper' = [helper EXCEPT !.state = "failed"]
  /\ wrapper' = [wrapper EXCEPT !.state = "exited", !.returncode = 1]
  /\ UNCHANGED <<fsvars, pc, icons, procs, futures, fault, run, fnvars>>

\* fontforge_import.py line 18: font.generate('SpellsIcons.ttf')
HelperGenerate ==
  /\ helper.state = "running"
  /\ helper.i = Len(Tail(helper.argv))
  /\ ttf' = helper.font
  /\ helper' = [helper EXCEPT !.state = "done"]
  /\ wrapper' = [wrapper EXCEPT !.state = "exited", !.returncode = 0]
  /\ UNCHANGED <<list_txt, icon_rs, pc, icons, procs, futures, fault, run,
                 fnvars>>

\* variant: subprocess.run(command, check=True)
RunReturn_check ==
  /\ pc = "stepB_wait"
  /\ wrapper.state = "exited"
  /\ IF wrapper.returncode # 0
     THEN pc' = "aborted" /\ fault' = "CalledProcessError"
     ELSE pc' = "stepC" /\ fault' = fault
  /\ UNCHANGED <<fsvars, icons, procs, futures, wrapper, helper, run, fnvars>>

\* line 40: subprocess.run returns the CompletedProcess, which is dropped
RunReturn ==
  /\ pc = "stepB_wait"
  /\ wrapper.state = "exited"
  /\ pc' = "stepC"
  /\ UNCHANGED <<fsvars, icons, procs, futures, wrapper, helper, fault, run,
                 fnvars>>

\* variant: the file opened with mode "a"
WriteRust_append ==
  /\ pc = "stepC"
  /\ icon_rs' = icon_rs \o rust(icons)
  /\ pc' = "done"
  /\ UNCHANGED <<list_txt, ttf, icons, procs, futures, wrapper, helper, fault,
                 run, fnvars>>

\* lines 43-69: render the source file and write it with mode "w"
WriteRust ==
  /\ pc = "stepC"
  /\ icon_rs' = rust(icons)
  /\ pc' = "done"
  /\ UNCHANGED <<list_txt, ttf, icons, procs, futures, wrapper, helper, fault,
                 run, fnvars>>

\* the operator runs the driver again over the same files
Rerun ==
  /\ pc = "done"
  /\ run < MaxRuns
  /\ run' = run + 1
  /\ pc' = "open"
  /\ icons' = <<>> /\ procs' = <<>> /\ futures' = <<>>
  /\ wrapper' = NoWrapper /\ helper' = NoHelper
  /\ fault' = "none"
  /\ UNCHANGED <<fsvars, fnvars>>

Next ==
  \/ OpenList
  \/ Spawn
  \/ EnterExecutor
  \/ Submit
  \/ \E i \in 1..MaxIcons : ProcExit(i)
  \/ \E i \in 1..MaxIcons : WorkerStart(i)
  \/ \E i \in 1..MaxIcons : WorkerDone(i)
  \/ WaitAll
  \/ RunWrapper
  \/ WrapperFail
  \/ HelperStart
  \/ HelperCreateChar
  \/ HelperFail
  \/ HelperGenerate
  \/ RunReturn
  \/ WriteRust
  \/ Rerun

Spec == Init /\ [][Next]_vars

\* ------------------------------------------- the per-arm functions, called
\* on every icon name and index of the bounded sets
FnInit ==
  /\ list_txt = [exists |-> FALSE, content |-> <<>>]
  /\ icon_rs = <<>>
  /\ ttf = <<>>
  /\ pc = "open"
  /\ icons = <<>> /\ procs = <<>> /\ futures = <<>>
  /\ wrapper = NoWrapper /\ helper = NoHelper
  /\ fault = "none"
  /\ run = 1
  /\ arg_icon \in IconNames
  /\ arg_i \in 0..MaxIndex
  /\ called = {}
  /\ ret_pascal = <<>> /\ ret_match = <<>>

CallPascalCase ==
  /\ "pascal_case" \notin called
  /\ ret_pascal' = pascal_case(arg_icon)
  /\ called' = called \cup {"pascal_case"}
  /\ UNCHANGED <<fsvars, drvars, arg_icon, arg_i, ret_match>>

CallMatchArm ==
  /\ "match_arm" \notin called
  /\ ret_match' = match_arm(arg_icon, arg_i)
  /\ called' = called \cup {"match_arm"}
  /\ UNCHANGED <<fsvars, drvars, arg_icon, arg_i, ret_pascal>>

FnNext ==
  \/ CallPascalCase
  \/ CallMatchArm

SpecFn == FnInit /\ [][FnNext]_vars

\* ============================================================ properties
\* Reading the generated file back: the fields of the arms of one section.
\* An arm is: open, first field, mid, second field, close.
FirstIndex(s, tok) ==
  IF \E k \in 1..Len(s) : s[k] = tok
  THEN CHOOSE k \in 1..Len(s) : s[k] = tok /\ \A j \in 1..(k-1) : s[j] # tok
  ELSE 0

Malformed == [first |-> <<"<malformed>">>, second |-> <<"<malformed>">>]

RECURSIVE ParseArms(_, _, _, _)
ParseArms(s, open, mid, close) ==
  IF s = <<>> THEN <<>>
  ELSE LET m == FirstIndex(s, mid)
           c == FirstIndex(s, close)
       IN  IF s[1] # open \/ m = 0 \/ c = 0 \/ c < m
           THEN <<Malformed>>
           ELSE <<[first |-> SubSeq(s, 2, m - 1),
                   second |-> SubSeq(s, m + 1, c - 1)]>>
                  \o ParseArms(SubSeq(s, c + 1, Len(s)), open, mid, close)

EnumSection(file) ==
  SubSeq(file, FirstIndex(file, RustHead) + 1, FirstIndex(file, RustMid) - 1)

MatchSection(file) ==
  SubSeq(file, FirstIndex(file, RustMid) + 1, FirstIndex(file, RustTail) - 1)

\* the declarations: [first = the name in the doc comment, second = the constant]
Declarations(file) == ParseArms(EnumSection(file), "\t/// ", "\n\t", ",\n")

\* the mapping entries: [first = the constant, second = the digits of the escape]
MatchEntries(arms) == ParseArms(arms, "\t\tIcon::", " => '\\u{", "}',\n")
Mappings(file) == MatchEntries(MatchSection(file))

\* the base-16 value of a digit string, -1 when it is not one
RECURSIVE HexValue(_)
HexValue(ds) ==
  IF ds = <<>> THEN -1
  ELSE LET d == FirstIndex(HexDigit, ds[Len(ds)]) - 1
       IN  IF d < 0 THEN -1
           ELSE IF Len(ds) = 1 THEN d
           ELSE LET hi == HexValue(SubSeq(ds, 1, Len(ds) - 1))
                IN  IF hi < 0 THEN -1 ELSE 16 * hi + d

StepBStarted == pc \in {"stepB_wait", "stepC", "done"} \/ wrapper.state # "none"

\* C1: when the driver and the helper have both finished, icon i has its
\* mapping entry in icon.rs at the code point at which the helper created its
\* glyph, and that code point is 0x61 + i.
C1_CodePointsAgree ==
  (pc = "done" /\ helper.state = "done") =>
     /\ Len(ttf) = Len(icons)
     /\ Len(Mappings(icon_rs)) = Len(icons)
     /\ \A k \in 1..Len(icons) :
          /\ ttf[k].name = icons[k]
          /\ HexValue(Mappings(icon_rs)[k].second) = ttf[k].uni
          /\ ttf[k].uni = 97 + (k - 1)

C1_Witness ==
  /\ pc = "done" /\ helper.state = "done"
  /\ Len(icons) >= 2
  /\ icons[1] # icons[2]
  /\ Len(ttf) >= 2 /\ ttf[2].uni = 98

C3_OneArmPerIcon ==
  pc = "done" =>
     /\ Len(Declarations(icon_rs)) = Len(icons)
     /\ Len(Mappings(icon_rs)) = Len(icons)
     /\ \A k \in 1..Len(icons) :
          /\ Declarations(icon_rs)[k].first = icons[k]
          /\ Mappings(icon_rs)[k].first = Declarations(icon_rs)[k].second

C3_Witness ==
  /\ pc = "done"
  /\ Len(icons) >= 2
  /\ icons[1] # icons[2]
  /\ Len(Declarations(icon_rs)) = Len(icons)

ArmAB == <<[first |-> <<"A", "B">>, second |-> <<"6", "1">>]>>
ArmCD == <<[first |-> <<"C", "D">>, second |-> <<"6", "2">>]>>

\* C4: the mapping entry of the icon at index i carries the base-16 digits of
\* 0x61 + i, lower-case, without prefix; a-b at index 0 gives AB -> 61 and
\* c-d at index 1 gives CD -> 62.
C4_HexEscape ==
  "match_arm" \in called =>
     /\ Len(MatchEntries(ret_match)) = 1
     /\ HexValue(MatchEntries(ret_match)[1].second) = 97 + arg_i
     /\ MatchEntries(ret_match)[1].second[1] # "0"
     /\ (arg_icon = <<"a", "-", "b">> /\ arg_i = 0)
          => MatchEntries(ret_match) = ArmAB
     /\ (arg_icon = <<"c", "-", "d">> /\ arg_i = 1)
          => MatchEntries(ret_match) = ArmCD

C4_Witness ==
  /\ "match_arm" \in called
  /\ arg_i = 159
  /\ MatchEntries(ret_match)[1].second = <<"1", "0", "0">>

IsNotHyphen(c) == c # "-"

\* the name read position by position: hyphens dropped, a character that
\* starts a word upper-cased, every other character kept as it is
CapFirstKeepRest(n) ==
  SelectSeq([p \in 1..Len(n) |->
               IF n[p] = "-" THEN "-"
               ELSE IF p = 1 \/ n[p - 1] = "-" THEN upper(n[p])
               ELSE n[p]],
            IsNotHyphen)

\* the same, every other character lower-cased
CapFirstLowerRest(n) ==
  SelectSeq([p \in 1..Len(n) |->
               IF n[p] = "-" THEN "-"
               ELSE IF p = 1 \/ n[p - 1] = "-" THEN upper(n[p])
               ELSE lower(n[p])],
            IsNotHyphen)

\* C5 as stated: pascal_case concatenates the hyphen-separated words, each
\* with its first letter capitalized and its other letters unchanged.
C5_Original ==
  "pascal_case" \in called => ret_pascal = CapFirstKeepRest(arg_icon)

\* C5 amended: pascal_case concatenates the hyphen-separated words, each
\* with its first character upper-cased and its other letters lower-cased;
\* arrow-left gives ArrowLeft and chevron-double-up gives ChevronDoubleUp.
C5_Amended ==
  "pascal_case" \in called =>
     /\ ret_pascal = CapFirstLowerRest(arg_icon)
     /\ arg_icon = <<"a","r","r","o","w","-","l","e","f","t">>
          => ret_pascal = <<"A","r","r","o","w","L","e","f","t">>
     /\ arg_icon = <<"c","h","e","v","r","o","n","-","d","o","u","b","l","e","-","u","p">>
          => ret_pascal = <<"C","h","e","v","r","o","n","D","o","u","b","l","e","U","p">>

C5_Witness ==
  /\ "pascal_case" \in called
  /\ arg_icon = <<"a", "B", "-", "a">>
  /\ ret_pascal = <<"A", "b", "A">>

\* C6: no exit status is inspected: whatever the converters and the wrapper
\* returned, the driver leaves the barrier for Step B, leaves Step B for
\* Step C, and Step C writes the file of the icon list.
C6_ExitStatusNeverChecked ==
  [][ /\ (pc = "submit" /\ pc' # "submit") => pc' = "stepB"
      /\ (pc = "stepB_wait" /\ pc' # "stepB_wait") => pc' = "stepC"
      /\ (pc = "stepC" /\ pc' # "stepC")
           => (pc' = "done" /\ icon_rs' = rust(icons)) ]_vars

C6_Witness ==
  /\ pc = "done"
  /\ \E i \in 1..Len(procs) : procs[i].returncode = 1
  /\ \E i \in 1..Len(procs) : procs[i].returncode = 0
  /\ wrapper.returncode = 1
  /\ icon_rs = rust(icons)

\* C7: the write of a second run over the same list.txt leaves icon.rs
\* byte-identical, and no write leaves anything of a hand-written file.
C7_RegenerationIdentical ==
  [][ (pc = "stepC" /\ pc' = "done") =>
        /\ run > 1 => icon_rs' = icon_rs
        /\ FirstIndex(icon_rs', "// written by hand\n") = 0
        /\ icon_rs'[1] = RustHead ]_vars

C7_Witness ==
  /\ run = 2 /\ pc = "done"
  /\ Len(icons) >= 2
  /\ wrapper.returncode = 1

\* C8: an empty list.txt gives an empty icon list, no converter process, and
\* the template with no declaration and no mapping entry.
C8_EmptyInput ==
  (list_txt.exists /\ list_txt.content = <<>>) =>
     /\ icons = <<>>
     /\ procs = <<>>
     /\ pc = "done" => icon_rs = <<RustHead, RustMid, RustTail>>

C8_Witness ==
  /\ list_txt.exists /\ list_txt.content = <<>>
  /\ pc = "done"
  /\ Declarations(icon_rs) = <<>> /\ Mappings(icon_rs) = <<>>

\* C9 as stated: two converter processes of one run never target the same
\* file.
C9_Original ==
  \A i, j \in 1..Len(procs) :
     i # j => procs[i].args[4] # procs[j].args[4]

\* C9 amended: two converter processes of one run target the same file
\* exactly when their icons have the same name.
C9_Amended ==
  \A i, j \in 1..Len(procs) :
     (procs[i].args[4] = procs[j].args[4]) <=> (icons[i] = icons[j])

C9_Witness ==
  /\ Len(procs) >= 2
  /\ \A i \in 1..2 : procs[i].returncode = None
  /\ icons[1] # icons[2]
  /\ procs[1].args[4] # procs[2].args[4]

FailureSeen ==
  \/ fault # "none"
  \/ \E i \in 1..Len(procs) : procs[i].returncode \notin {None, 0}
  \/ wrapper.returncode \notin {None, 0}

\* C10 as stated: after any failure the run does not reach the write of the
\* source file.
C10_Original == FailureSeen => pc # "done"

\* C10 amended: the driver aborts only where a call of its own raises
\* (open, Popen, subprocess.run), never on an exit status, and an aborted
\* run stays aborted and does not write the source file.
C10_Amended ==
  [][ /\ (pc' = "aborted" /\ pc # "aborted")
           => /\ pc \in {"open", "spawn", "stepB"}
              /\ fault' \in {"FileNotFoundError", "OSError"}
              /\ icon_rs' = icon_rs
      /\ pc = "aborted" => (pc' = "aborted" /\ icon_rs' = icon_rs) ]_vars

C10_Witness ==
  /\ pc = "aborted" /\ fault = "OSError"
  /\ Len(procs) >= 1
  /\ procs[1].returncode = 1
  /\ icon_rs = <<"// written by hand\n">>

====
